---- MODULE Spec2Model ----
(***************************************************************************)
(* The chat/session data layer (ChatContext provider, ChatInterface,       *)
(* Sidebar), the calendar's drag-to-reschedule handler and the Chat page   *)
(* with its keyword stub and speech input, as state machines over the      *)
(* remote table store and the browser's speech recognition.                *)
(*                                                                         *)
(* An async handler is an entry of `ops`: it holds the values its closure  *)
(* captured when the handler was created (the state of the render it was   *)
(* called from) and the await it is suspended at.  One step of the model   *)
(* is either a user gesture (the synchronous part of a handler, up to its  *)
(* first await) or the settling of one remote call together with the       *)
(* continuation that runs up to the next await.                            *)
(*                                                                         *)
(* Text is a sequence of character codes, so that slicing and              *)
(* concatenation are computed rather than assumed.                         *)
(***************************************************************************)
EXTENDS Naturals, Sequences, FiniteSets, TLC

\* ---------------------------------------------------------------- bounds
MaxChats == 2        \* session ids the remote store hands out
MaxMsgs == 2         \* message ids the remote store hands out
MaxInFlight == 2     \* async handlers suspended at the same time
MaxGestures == 3     \* user gestures in one run
MaxFailures == 1     \* remote calls that return an error in one run
MaxRaceGestures == 2 \* user gestures in one run of RaceSpec
MaxTasks == 2        \* calendar tasks
MaxSlot == 2         \* calendar time slots 0..MaxSlot
MaxSends == 2        \* sends the Chat page accepts in one run
MaxInputLen == 3     \* longest Chat page input speech input produces

\* ------------------------------------------------------- program constants
TitleLimit == 50

NewChatTitle == <<78, 101, 119, 32, 67, 104, 97, 116>>
Ellipsis == <<46, 46, 46>>
ResponsePrefix == <<82, 101, 115, 112, 111, 110, 115, 101, 32, 116, 111, 58, 32>>

\* ----------------------------------------------------------------- inputs
ShortText == <<104, 105>>
LongText == [i \in 1..(TitleLimit + 1) |-> 120]
BlankText == <<32>>
Texts == {ShortText, LongText, BlankText}
RenameTitles == {<<84>>}
SystemText == <<115, 121, 115>>

\* prompt ids are strings; "null" is null and "bad" a value that is neither
\* null nor a string
DefaultPrompts == {"p1", "p2"}
CustomPrompts == {"p3"}
PromptArgs == {"null", "bad"} \cup DefaultPrompts \cup CustomPrompts
IsString(p) == p \in DefaultPrompts \cup CustomPrompts

Instructions(p) == IF p = "p1" THEN SystemText
                   ELSE IF p = "p3" THEN SystemText
                   ELSE <<>>

VARIABLES
    chats,          \* useState([]): list of session objects
    prompts,        \* useState([]): list of prompt ids
    activeChat,     \* useState(null)
    selectedChats,  \* useState(new Set())
    isLoading,      \* useState(true)
    rChats,         \* table chat_sessions, newest first
    rMessages,      \* table chat_messages, in insertion order
    rPrompts,       \* table chat_prompts
    nextChat,       \* next session id of the store
    nextMsg,        \* next message id of the store
    ops,            \* suspended async handlers, in start order
    landed,         \* the remote call settled by the last step, if any
    notes,          \* notifications raised by the last step
    events,         \* Calendar: displayed start slot per task
    rDeadline,      \* table tasks: deadline per task
    drops,          \* Calendar: handleEventDrop calls in flight
    calLast,        \* Calendar: what the last step did
    gestures,       \* user gestures made so far
    failures,       \* remote calls that returned an error so far
    messages,       \* Chat page: useState([])
    inputValue,     \* Chat page: useState('')
    attachment,     \* Chat page: useState(null); TRUE when a file is set
    isProcessing,   \* Chat page: useState(false)
    stubs,          \* Chat page: simulateAIResponse calls in flight
    isRecording,    \* Chat page: useState(false)
    recognitionRef, \* Chat page: the recognition object of recognitionRef
    isListening,    \* ChatInterface: useState(false)
    recognition,    \* ChatInterface: the module's recognition object
    viewLast        \* what the last step of a chat view did

chatVars == <<chats, prompts, activeChat, selectedChats, isLoading, rChats,
              rMessages, rPrompts, nextChat, nextMsg, ops, landed, notes,
              gestures, failures>>
calVars == <<events, rDeadline, drops, calLast>>
viewVars == <<messages, inputValue, attachment, isProcessing, stubs,
              isRecording, recognitionRef, isListening, recognition, viewLast>>
vars == <<chats, prompts, activeChat, selectedChats, isLoading, rChats,
          rMessages, rPrompts, nextChat, nextMsg, ops, landed, notes,
          gestures, failures, events, rDeadline, drops, calLast,
          messages, inputValue, attachment, isProcessing, stubs,
          isRecording, recognitionRef, isListening, recognition, viewLast>>

\* --------------------------------------------------------------- helpers
RemoveAt(s, i) == SubSeq(s, 1, i - 1) \o SubSeq(s, i + 1, Len(s))
Range(s) == {s[i] : i \in 1..Len(s)}
IsPrefix(s, t) == Len(s) <= Len(t) /\ SubSeq(t, 1, Len(s)) = s
IsBlank(t) == \A i \in 1..Len(t) : t[i] = 32

\* ------------------------------------------------------------ the objects
NullChat == [kind |-> "null", id |-> 0, title |-> <<>>, messages |-> <<>>,
             prompt |-> "null"]
\* the pending promise an un-awaited createNewChat call evaluates to
PromiseChat == [kind |-> "promise", id |-> 0, title |-> <<>>,
                messages |-> <<>>, prompt |-> "null"]
ChatObj(id, title, msgs, pid) ==
    [kind |-> "chat", id |-> id, title |-> title, messages |-> msgs,
     prompt |-> pid]

Note(text, type) == [text |-> text, type |-> type]

ChatIds(cs) == {cs[i].id : i \in 1..Len(cs)}
RemoteIds == ChatIds(rChats)

\* the rows of chat_messages that reference session id, in insertion order
MessagesOf(id) == SelectSeq(rMessages, LAMBDA m : m.session = id)

\* ---------------------------------------------------------- async handlers
NoOp == [kind |-> "none", pc |-> "none", pid |-> "null", cid |-> 0,
         ids |-> {}, text |-> <<>>, title |-> <<>>, capChats |-> <<>>,
         capActive |-> NullChat, capPrompts |-> <<>>, capSelected |-> {},
         errs |-> {}, solo |-> FALSE, raced |-> FALSE, nested |-> FALSE,
         bulk |-> FALSE, row |-> 0]

\* a handler called from the current render closes over the current state
Closure(kind, pc) ==
    [NoOp EXCEPT !.kind = kind, !.pc = pc, !.capChats = chats,
                 !.capActive = activeChat, !.capPrompts = prompts,
                 !.capSelected = selectedChats, !.solo = TRUE]

\* what the last step was: the call that settled, whether it returned data
\* (ok) or an error, and whether the handler returned (fin) with result
NoLand == [op |-> NoOp, call |-> "none", ok |-> FALSE, fin |-> FALSE,
           result |-> NullChat]

Land(op, call, ok, fin, result) ==
    [op |-> op, call |-> call, ok |-> ok, fin |-> fin, result |-> result]

\* another handler's step ran while o was suspended; patched: it patched
\* chats or activeChat
Mark(o, patched) == [o EXCEPT !.solo = FALSE, !.raced = @ \/ patched]
Others(patched) == [j \in 1..Len(ops) |-> Mark(ops[j], patched)]
Finish(i, patched) == RemoveAt(Others(patched), i)
Suspend(i, new, patched) == [Others(patched) EXCEPT ![i] = new]

\* one more user gesture (a click, a submit)
Gesture ==
    /\ gestures < MaxGestures
    /\ gestures' = gestures + 1
    /\ UNCHANGED <<failures, events, rDeadline, drops, calLast>>
    /\ UNCHANGED viewVars

\* a remote call returns its data to a suspended handler, or a timer fires
Settling ==
    /\ UNCHANGED <<gestures, failures, events, rDeadline, drops, calLast>>
    /\ UNCHANGED viewVars

\* a remote call returns { error } to a suspended handler
Failing ==
    /\ failures < MaxFailures
    /\ failures' = failures + 1
    /\ UNCHANGED <<gestures, events, rDeadline, drops, calLast>>
    /\ UNCHANGED viewVars

\* ------------------------------------------------- the code's computations
\* a row of chat_sessions with its joined messages (select, lines 40-47)
JoinedChat(row) == ChatObj(row.id, row.title, MessagesOf(row.id), row.prompt)

\* { ...chat, messages: [], prompt } (line 105)
NewChatObject(id, pid) == ChatObj(id, NewChatTitle, <<>>, pid)

\* (a functional update: the new chat is put before the current chats)
CreatePatchCurrent(op, newChat) == <<newChat>> \o chats

\* setChats([newChat, ...chats]) (line 106): chats is the closure's
CreatePatch(op, newChat) == <<newChat>> \o op.capChats

\* prompt?.instructions (line 95)
HasInstructions(pid) == IsString(pid) /\ Instructions(pid) # <<>>

\* what the last step of a chat view was: the handler or recognition event
\* that ran, the text it worked on and the notifications it raised
NoView == [view |-> "none", kind |-> "none", text |-> <<>>, notes |-> {}]

\* both chat views as mounted: rec is the recognition object the feature
\* detection produced, "null" when the browser has no speech recognition
ViewIdle(rec) ==
    /\ messages = <<>>
    /\ inputValue = <<>>
    /\ attachment = FALSE
    /\ isProcessing = FALSE
    /\ stubs = <<>>
    /\ isRecording = FALSE
    /\ recognitionRef = rec
    /\ isListening = FALSE
    /\ recognition = rec
    /\ viewLast = NoView

Init ==
    /\ chats = <<>>
    /\ prompts = <<>>
    /\ activeChat = NullChat
    /\ selectedChats = {}
    /\ isLoading = TRUE
    /\ rPrompts = <<"p2", "p1">>
    /\ \E n \in 0..1, m \in 0..1 :
          /\ m <= n
          /\ rChats = [i \in 1..n |->
                         [id |-> i, title |-> NewChatTitle, prompt |-> "null"]]
          /\ rMessages = [i \in 1..m |->
                            [id |-> i, session |-> 1, role |-> "user",
                             content |-> ShortText]]
          /\ nextChat = n + 1
          /\ nextMsg = m + 1
    \* useEffect(() => { if (user) loadChatsAndPrompts() }, [user])
    /\ ops = <<[NoOp EXCEPT !.kind = "load", !.pc = "prompts_select",
                            !.solo = TRUE]>>
    /\ landed = NoLand
    /\ notes = {}
    /\ gestures = 0
    /\ failures = 0
    /\ events = <<>>
    /\ rDeadline = <<>>
    /\ drops = <<>>
    /\ calLast = "none"
    /\ ViewIdle("null")

\* ------------------------------------------------- loadChatsAndPrompts
LoadPromptsOk(i) ==
    /\ Settling
    /\ ops[i].kind = "load" /\ ops[i].pc = "prompts_select"
    /\ prompts' = rPrompts
    /\ ops' = Suspend(i, [ops[i] EXCEPT !.pc = "sessions_select"], FALSE)
    /\ landed' = Land(ops[i], "prompts_select", TRUE, FALSE, NullChat)
    /\ notes' = {}
    /\ UNCHANGED <<chats, activeChat, selectedChats, isLoading, rChats,
                   rMessages, rPrompts, nextChat, nextMsg>>

LoadPromptsErr(i) ==
    /\ Failing
    /\ ops[i].kind = "load" /\ ops[i].pc = "prompts_select"
    /\ isLoading' = FALSE
    /\ ops' = Finish(i, FALSE)
    /\ landed' = Land([ops[i] EXCEPT !.errs = @ \cup {"prompts_select"}],
                      "prompts_select", FALSE, TRUE, NullChat)
    /\ notes' = {Note("Failed to load chats", "error")}
    /\ UNCHANGED <<chats, prompts, activeChat, selectedChats, rChats,
                   rMessages, rPrompts, nextChat, nextMsg>>

LoadChatsOk(i) ==
    /\ Settling
    /\ ops[i].kind = "load" /\ ops[i].pc = "sessions_select"
    /\ LET chatsData == [j \in 1..Len(rChats) |-> JoinedChat(rChats[j])]
       IN /\ chats' = chatsData
          /\ activeChat' = IF Len(chatsData) > 0 /\ ops[i].capActive.kind = "null"
                           THEN chatsData[1]
                           ELSE activeChat
    /\ isLoading' = FALSE
    /\ ops' = Finish(i, FALSE)
    /\ landed' = Land(ops[i], "sessions_select", TRUE, TRUE, NullChat)
    /\ notes' = {}
    /\ UNCHANGED <<prompts, selectedChats, rChats, rMessages, rPrompts,
                   nextChat, nextMsg>>

LoadChatsErr(i) ==
    /\ Failing
    /\ ops[i].kind = "load" /\ ops[i].pc = "sessions_select"
    /\ isLoading' = FALSE
    /\ ops' = Finish(i, FALSE)
    /\ landed' = Land([ops[i] EXCEPT !.errs = @ \cup {"sessions_select"}],
                      "sessions_select", FALSE, TRUE, NullChat)
    /\ notes' = {Note("Failed to load chats", "error")}
    /\ UNCHANGED <<chats, prompts, activeChat, selectedChats, rChats,
                   rMessages, rPrompts, nextChat, nextMsg>>

\* ------------------------------------------------------- createNewChat
\* (a createNewChat that does not look at the type of promptId)
CreateCallUnvalidated(c, pid) ==
    IF pid # "null"
    THEN [c EXCEPT !.kind = "create", !.pid = pid, !.pc = "prompt_select"]
    ELSE [c EXCEPT !.kind = "create", !.pid = pid, !.pc = "session_insert"]

\* the synchronous part of createNewChat(pid), called from closure c
\* (lines 64-92): the op it suspends as, or c with pc "done" when it threw
CreateCall(c, pid) ==
    IF pid # "null" /\ ~IsString(pid)
    THEN [c EXCEPT !.kind = "create", !.pid = pid, !.pc = "done"]
    ELSE IF pid # "null"
    THEN [c EXCEPT !.kind = "create", !.pid = pid, !.pc = "prompt_select"]
    ELSE [c EXCEPT !.kind = "create", !.pid = pid, !.pc = "session_insert"]

CreateNewChat(pid) ==
    /\ Gesture
    /\ Len(ops) < MaxInFlight
    /\ pid \in {"null", "bad"} \cup Range(prompts)
    /\ LET op == CreateCall(Closure("create", "start"), pid)
       IN IF op.pc = "done"
          THEN /\ ops' = Others(FALSE)
               /\ landed' = Land(op, "validate", FALSE, TRUE, NullChat)
               /\ notes' = {Note("Failed to create new chat", "error")}
          ELSE /\ ops' = Append(Others(FALSE), op)
               /\ landed' = NoLand
               /\ notes' = {}
    /\ UNCHANGED <<chats, prompts, activeChat, selectedChats, isLoading,
                   rChats, rMessages, rPrompts, nextChat, nextMsg>>

\* Sidebar "New Chat": const newChat = createNewChat(null);
\* if (newChat) setActiveChat(newChat)  -- newChat is the pending promise
SidebarNewChat ==
    /\ Gesture
    /\ Len(ops) < MaxInFlight
    /\ selectedChats = {}
    /\ ops' = Append(Others(FALSE), CreateCall(Closure("create", "start"), "null"))
    /\ activeChat' = PromiseChat
    /\ landed' = NoLand
    /\ notes' = {}
    /\ UNCHANGED <<chats, prompts, selectedChats, isLoading, rChats,
                   rMessages, rPrompts, nextChat, nextMsg>>

CreateFail(i, call) ==
    /\ ops' = Finish(i, FALSE)
    /\ landed' = Land([ops[i] EXCEPT !.errs = @ \cup {call}], call, FALSE,
                      TRUE, NullChat)
    /\ notes' = {Note("Failed to create new chat", "error")}
    /\ UNCHANGED <<chats, prompts, activeChat, selectedChats, isLoading,
                   rChats, rMessages, rPrompts, nextChat, nextMsg>>

\* lines 105-108
CreateDone(i, op, call, ok) ==
    LET newChat == NewChatObject(op.row, op.pid)
    IN /\ chats' = CreatePatch(op, newChat)
       /\ activeChat' = newChat
       /\ ops' = Finish(i, TRUE)
       /\ landed' = Land(op, call, ok, TRUE, newChat)
       /\ notes' = {}

PromptSelectOk(i) ==
    /\ Settling
    /\ ops[i].kind = "create" /\ ops[i].pc = "prompt_select"
    /\ ops[i].pid \in Range(rPrompts)
    /\ ops' = Suspend(i, [ops[i] EXCEPT !.pc = "session_insert"], FALSE)
    /\ landed' = Land(ops[i], "prompt_select", TRUE, FALSE, NullChat)
    /\ notes' = {}
    /\ UNCHANGED <<chats, prompts, activeChat, selectedChats, isLoading,
                   rChats, rMessages, rPrompts, nextChat, nextMsg>>

PromptSelectErr(i) ==
    /\ Failing
    /\ ops[i].kind = "create" /\ ops[i].pc = "prompt_select"
    /\ CreateFail(i, "prompt_select")

SessionInsertOk(i) ==
    /\ Settling
    /\ ops[i].kind = "create" /\ ops[i].pc = "session_insert"
    /\ nextChat <= MaxChats
    /\ rChats' = <<[id |-> nextChat, title |-> NewChatTitle,
                    prompt |-> ops[i].pid]>> \o rChats
    /\ nextChat' = nextChat + 1
    /\ LET op == [ops[i] EXCEPT !.row = nextChat]
       IN IF HasInstructions(op.pid)
          THEN /\ ops' = Suspend(i, [op EXCEPT !.pc = "system_insert"], FALSE)
               /\ landed' = Land(op, "session_insert", TRUE, FALSE, NullChat)
               /\ notes' = {}
               /\ UNCHANGED <<chats, activeChat>>
          ELSE CreateDone(i, op, "session_insert", TRUE)
    /\ UNCHANGED <<prompts, selectedChats, isLoading, rMessages, rPrompts,
                   nextMsg>>

SessionInsertErr(i) ==
    /\ Failing
    /\ ops[i].kind = "create" /\ ops[i].pc = "session_insert"
    /\ CreateFail(i, "session_insert")

\* lines 95-103: the result of the insert is not looked at
SystemInsertOk(i) ==
    /\ Settling
    /\ ops[i].kind = "create" /\ ops[i].pc = "system_insert"
    /\ ops[i].row \in RemoteIds
    /\ nextMsg <= MaxMsgs
    /\ rMessages' = Append(rMessages,
                           [id |-> nextMsg, session |-> ops[i].row,
                            role |-> "system",
                            content |-> Instructions(ops[i].pid)])
    /\ nextMsg' = nextMsg + 1
    /\ CreateDone(i, ops[i], "system_insert", TRUE)
    /\ UNCHANGED <<prompts, selectedChats, isLoading, rChats, rPrompts,
                   nextChat>>

SystemInsertErr(i) ==
    /\ Failing
    /\ ops[i].kind = "create" /\ ops[i].pc = "system_insert"
    /\ CreateDone(i, [ops[i] EXCEPT !.errs = @ \cup {"system_insert"}],
                  "system_insert", FALSE)
    /\ UNCHANGED <<prompts, selectedChats, isLoading, rChats, rMessages,
                   rPrompts, nextChat, nextMsg>>

\* -------------------------------------------------- createCustomPrompt
CreateCustomPrompt(pid) ==
    /\ Gesture
    /\ Len(ops) < MaxInFlight
    /\ pid \notin Range(rPrompts)
    /\ \A j \in 1..Len(ops) : ops[j].kind # "prompt"
    /\ ops' = Append(Others(FALSE),
                     [Closure("prompt", "prompt_insert") EXCEPT !.pid = pid])
    /\ landed' = NoLand
    /\ notes' = {}
    /\ UNCHANGED <<chats, prompts, activeChat, selectedChats, isLoading,
                   rChats, rMessages, rPrompts, nextChat, nextMsg>>

PromptInsertOk(i) ==
    /\ Settling
    /\ ops[i].kind = "prompt" /\ ops[i].pc = "prompt_insert"
    /\ rPrompts' = <<ops[i].pid>> \o rPrompts
    /\ prompts' = <<ops[i].pid>> \o ops[i].capPrompts
    /\ ops' = Finish(i, FALSE)
    /\ landed' = Land(ops[i], "prompt_insert", TRUE, TRUE, NullChat)
    /\ notes' = {}
    /\ UNCHANGED <<chats, activeChat, selectedChats, isLoading, rChats,
                   rMessages, nextChat, nextMsg>>

PromptInsertErr(i) ==
    /\ Failing
    /\ ops[i].kind = "prompt" /\ ops[i].pc = "prompt_insert"
    /\ ops' = Finish(i, FALSE)
    /\ landed' = Land([ops[i] EXCEPT !.errs = @ \cup {"prompt_insert"}],
                      "prompt_insert", FALSE, TRUE, NullChat)
    /\ notes' = {Note("Failed to create custom prompt", "error")}
    /\ UNCHANGED <<chats, prompts, activeChat, selectedChats, isLoading,
                   rChats, rMessages, rPrompts, nextChat, nextMsg>>

\* ------------------------------------------------------ updateChatTitle
\* chats.map(chat => chat.id === chatId ? { ...chat, title } : chat)
TitlePatch(cs, chatId, t) ==
    [j \in 1..Len(cs) |->
        IF cs[j].id = chatId THEN [cs[j] EXCEPT !.title = t] ELSE cs[j]]

\* lines 190-192; false for null and for a promise, whose id is undefined
ActiveIs(op, chatId) == op.capActive.kind = "chat" /\ op.capActive.id = chatId

\* messageText.slice(0, 50) + (messageText.length > 50 ? '...' : '')
AutoTitle(text) ==
    SubSeq(text, 1, IF Len(text) < TitleLimit THEN Len(text) ELSE TitleLimit)
        \o (IF Len(text) > TitleLimit THEN Ellipsis ELSE <<>>)

\* addMessage(text, role) called from closure op: the insert it issues
SendNext(op, pc) == [op EXCEPT !.pc = pc]

\* ChatItem.handleRename: onRename(chat.id, newTitle.trim())
Rename(k, t) ==
    /\ Gesture
    /\ Len(ops) < MaxInFlight
    /\ k \in 1..Len(chats)
    /\ t # chats[k].title
    /\ ops' = Append(Others(FALSE),
                     [Closure("title", "session_update")
                        EXCEPT !.cid = chats[k].id, !.title = t])
    /\ landed' = NoLand
    /\ notes' = {}
    /\ UNCHANGED <<chats, prompts, activeChat, selectedChats, isLoading,
                   rChats, rMessages, rPrompts, nextChat, nextMsg>>

\* after updateChatTitle returns: the handler returns (Sidebar rename) or
\* goes on to addMessage(messageText, 'user') (handleSend)
AfterTitle(i, op, patched) ==
    IF op.kind = "send"
    THEN Suspend(i, SendNext(op, "user_insert"), patched)
    ELSE Finish(i, patched)

SessionUpdateOk(i) ==
    /\ Settling
    /\ ops[i].pc = "session_update"
    /\ rChats' = TitlePatch(rChats, ops[i].cid, ops[i].title)
    /\ chats' = TitlePatch(ops[i].capChats, ops[i].cid, ops[i].title)
    /\ activeChat' = IF ActiveIs(ops[i], ops[i].cid)
                     THEN [ops[i].capActive EXCEPT !.title = ops[i].title]
                     ELSE activeChat
    /\ ops' = AfterTitle(i, ops[i], TRUE)
    /\ landed' = Land(ops[i], "session_update", TRUE, ops[i].kind = "title",
                      NullChat)
    /\ notes' = {}
    /\ UNCHANGED <<prompts, selectedChats, isLoading, rMessages, rPrompts,
                   nextChat, nextMsg>>

SessionUpdateErr(i) ==
    /\ Failing
    /\ ops[i].pc = "session_update"
    /\ LET op == [ops[i] EXCEPT !.errs = @ \cup {"session_update"}]
       IN /\ ops' = AfterTitle(i, op, FALSE)
          /\ landed' = Land(op, "session_update", FALSE, op.kind = "title",
                            NullChat)
    /\ notes' = {Note("Failed to update chat title", "error")}
    /\ UNCHANGED <<chats, prompts, activeChat, selectedChats, isLoading,
                   rChats, rMessages, rPrompts, nextChat, nextMsg>>

\* ---------------------------------------------------------- deleteChats
\* chats.filter(chat => !chatIds.has(chat.id))
DeletePatch(cs, ids) == SelectSeq(cs, LAMBDA c : c.id \notin ids)

\* the chats deleteChats hands to setChats (line 208): the closure's
DeleteUpdated(op) == DeletePatch(op.capChats, op.ids)

\* ChatItem.handleDelete (confirmed): onDelete(new Set([chat.id]))
DeleteOne(k) ==
    /\ Gesture
    /\ Len(ops) < MaxInFlight
    /\ k \in 1..Len(chats)
    /\ ops' = Append(Others(FALSE),
                     [Closure("delete", "session_delete")
                        EXCEPT !.ids = {chats[k].id}])
    /\ landed' = NoLand
    /\ notes' = {}
    /\ UNCHANGED <<chats, prompts, activeChat, selectedChats, isLoading,
                   rChats, rMessages, rPrompts, nextChat, nextMsg>>

\* Sidebar bulk delete: deleteChats(selectedChats); clearSelection()
BulkDelete ==
    /\ Gesture
    /\ Len(ops) < MaxInFlight
    /\ selectedChats # {}
    /\ ops' = Append(Others(FALSE),
                     [Closure("delete", "session_delete")
                        EXCEPT !.ids = selectedChats, !.bulk = TRUE])
    /\ selectedChats' = {}
    /\ landed' = NoLand
    /\ notes' = {}
    /\ UNCHANGED <<chats, prompts, activeChat, isLoading, rChats, rMessages,
                   rPrompts, nextChat, nextMsg>>

SessionDeleteOk(i) ==
    /\ Settling
    /\ ops[i].kind = "delete" /\ ops[i].pc = "session_delete"
    /\ rChats' = DeletePatch(rChats, ops[i].ids)
    /\ rMessages' = SelectSeq(rMessages, LAMBDA m : m.session \notin ops[i].ids)
    /\ LET updatedChats == DeleteUpdated(ops[i])
       IN /\ chats' = updatedChats
          /\ activeChat' = IF ops[i].capActive.kind = "chat"
                              /\ ops[i].capActive.id \in ops[i].ids
                           THEN IF updatedChats # <<>> THEN updatedChats[1]
                                ELSE NullChat
                           ELSE activeChat
          \* if (updatedChats.length === 0) createNewChat()  -- not awaited,
          \* and createNewChat is the one of deleteChats' own closure
          /\ ops' = IF updatedChats = <<>>
                    THEN Suspend(i, CreateCall([ops[i] EXCEPT !.nested = TRUE],
                                               "null"), TRUE)
                    ELSE Finish(i, TRUE)
    /\ selectedChats' = {}
    /\ landed' = Land(ops[i], "session_delete", TRUE, TRUE, NullChat)
    /\ notes' = {Note("Deleted", "success")}
    /\ UNCHANGED <<prompts, isLoading, rPrompts, nextChat, nextMsg>>

SessionDeleteErr(i) ==
    /\ Failing
    /\ ops[i].kind = "delete" /\ ops[i].pc = "session_delete"
    /\ ops' = Finish(i, FALSE)
    /\ landed' = Land([ops[i] EXCEPT !.errs = @ \cup {"session_delete"}],
                      "session_delete", FALSE, TRUE, NullChat)
    /\ notes' = {Note("Failed to delete chats", "error")}
    /\ UNCHANGED <<chats, prompts, activeChat, selectedChats, isLoading,
                   rChats, rMessages, rPrompts, nextChat, nextMsg>>

\* ------------------------------------------------------------ selection
ToggleChatSelection(k) ==
    /\ Gesture
    /\ k \in 1..Len(chats)
    /\ selectedChats' = IF chats[k].id \in selectedChats
                        THEN selectedChats \ {chats[k].id}
                        ELSE selectedChats \cup {chats[k].id}
    /\ ops' = Others(FALSE)
    /\ landed' = NoLand
    /\ notes' = {}
    /\ UNCHANGED <<chats, prompts, activeChat, isLoading, rChats, rMessages,
                   rPrompts, nextChat, nextMsg>>

ClearSelection ==
    /\ Gesture
    /\ selectedChats # {}
    /\ selectedChats' = {}
    /\ ops' = Others(FALSE)
    /\ landed' = NoLand
    /\ notes' = {}
    /\ UNCHANGED <<chats, prompts, activeChat, isLoading, rChats, rMessages,
                   rPrompts, nextChat, nextMsg>>

\* ----------------------------------------- addMessage and handleSend
\* { ...activeChat, messages: [...(activeChat.messages || []), message] }
UpdatedChat(op, msg) == [op.capActive EXCEPT !.messages = Append(@, msg)]

\* chats.map(chat => chat.id === activeChat.id ? updatedChat : chat)
ReplaceChat(cs, id, new) ==
    [j \in 1..Len(cs) |-> IF cs[j].id = id THEN new ELSE cs[j]]

\* the role and content of the addMessage call handleSend is suspended at
SendRole(op) == IF op.pc = "user_insert" THEN "user" ELSE "assistant"
SendContent(op) == IF op.pc = "user_insert" THEN op.text
                   ELSE ResponsePrefix \o op.text

\* ChatInterface.handleSend(messageText), from the form, which is rendered
\* only while activeChat is not null (line 394)
HandleSend(text) ==
    /\ Gesture
    /\ Len(ops) < MaxInFlight
    /\ activeChat.kind # "null"
    /\ ~IsBlank(text)
    /\ LET op == [Closure("send", "start")
                    EXCEPT !.text = text, !.cid = activeChat.id,
                           !.title = AutoTitle(text)]
       IN ops' = Append(Others(FALSE),
                        IF activeChat.kind = "chat" /\ Len(activeChat.messages) = 0
                        THEN SendNext(op, "session_update")
                        ELSE SendNext(op, "user_insert"))
    /\ landed' = NoLand
    /\ notes' = {}
    /\ UNCHANGED <<chats, prompts, activeChat, selectedChats, isLoading,
                   rChats, rMessages, rPrompts, nextChat, nextMsg>>

\* after addMessage returns: the typing delay, or the end of handleSend
AfterMessage(i, op, patched) ==
    IF op.pc = "user_insert"
    THEN Suspend(i, SendNext(op, "delay"), patched)
    ELSE Finish(i, patched)

MessageInsertOk(i) ==
    /\ Settling
    /\ ops[i].kind = "send" /\ ops[i].pc \in {"user_insert", "assistant_insert"}
    /\ ops[i].capActive.kind = "chat"
    /\ ops[i].capActive.id \in RemoteIds
    /\ nextMsg <= MaxMsgs
    /\ LET message == [id |-> nextMsg, session |-> ops[i].capActive.id,
                       role |-> SendRole(ops[i]),
                       content |-> SendContent(ops[i])]
           updatedChat == UpdatedChat(ops[i], message)
       IN /\ rMessages' = Append(rMessages, message)
          /\ chats' = ReplaceChat(ops[i].capChats, ops[i].capActive.id,
                                  updatedChat)
          /\ activeChat' = updatedChat
    /\ nextMsg' = nextMsg + 1
    /\ ops' = AfterMessage(i, ops[i], TRUE)
    /\ landed' = Land(ops[i], "message_insert", TRUE,
                      ops[i].pc = "assistant_insert", NullChat)
    /\ notes' = {}
    /\ UNCHANGED <<prompts, selectedChats, isLoading, rChats, rPrompts,
                   nextChat>>

MessageInsertErr(i) ==
    /\ Failing
    /\ ops[i].kind = "send" /\ ops[i].pc \in {"user_insert", "assistant_insert"}
    /\ LET op == [ops[i] EXCEPT !.errs = @ \cup {ops[i].pc}]
       IN /\ ops' = AfterMessage(i, op, FALSE)
          /\ landed' = Land(op, "message_insert", FALSE,
                            op.pc = "assistant_insert", NullChat)
    /\ notes' = {Note("Failed to send message", "error")}
    /\ UNCHANGED <<chats, prompts, activeChat, selectedChats, isLoading,
                   rChats, rMessages, rPrompts, nextChat, nextMsg>>

\* await new Promise(resolve => setTimeout(resolve, 1000 + ...)) is over:
\* handleSend calls addMessage(`Response to: ...`, 'assistant')
TypingDelay(i) ==
    /\ Settling
    /\ ops[i].kind = "send" /\ ops[i].pc = "delay"
    /\ ops' = Suspend(i, SendNext(ops[i], "assistant_insert"), FALSE)
    /\ landed' = NoLand
    /\ notes' = {}
    /\ UNCHANGED <<chats, prompts, activeChat, selectedChats, isLoading,
                   rChats, rMessages, rPrompts, nextChat, nextMsg>>

\* a remote call of a suspended handler settles, or its timer fires
SettleStep ==
    \/ \E i \in 1..Len(ops) : LoadPromptsOk(i)
    \/ \E i \in 1..Len(ops) : LoadPromptsErr(i)
    \/ \E i \in 1..Len(ops) : LoadChatsOk(i)
    \/ \E i \in 1..Len(ops) : LoadChatsErr(i)
    \/ \E i \in 1..Len(ops) : PromptSelectOk(i)
    \/ \E i \in 1..Len(ops) : PromptSelectErr(i)
    \/ \E i \in 1..Len(ops) : SessionInsertOk(i)
    \/ \E i \in 1..Len(ops) : SessionInsertErr(i)
    \/ \E i \in 1..Len(ops) : SystemInsertOk(i)
    \/ \E i \in 1..Len(ops) : SystemInsertErr(i)
    \/ \E i \in 1..Len(ops) : PromptInsertOk(i)
    \/ \E i \in 1..Len(ops) : PromptInsertErr(i)
    \/ \E i \in 1..Len(ops) : SessionUpdateOk(i)
    \/ \E i \in 1..Len(ops) : SessionUpdateErr(i)
    \/ \E i \in 1..Len(ops) : SessionDeleteOk(i)
    \/ \E i \in 1..Len(ops) : SessionDeleteErr(i)
    \/ \E i \in 1..Len(ops) : MessageInsertOk(i)
    \/ \E i \in 1..Len(ops) : MessageInsertErr(i)
    \/ \E i \in 1..Len(ops) : TypingDelay(i)

Next ==
    \/ SettleStep
    \/ \E pid \in PromptArgs : CreateNewChat(pid)
    \/ SidebarNewChat
    \/ \E pid \in CustomPrompts : CreateCustomPrompt(pid)
    \/ \E k \in 1..Len(chats), t \in RenameTitles : Rename(k, t)
    \/ \E k \in 1..Len(chats) : DeleteOne(k)
    \/ \E k \in 1..Len(chats) : ToggleChatSelection(k)
    \/ BulkDelete
    \/ ClearSelection
    \/ \E text \in Texts : HandleSend(text)

Spec == Init /\ [][Next]_vars

\* the runs in which the user waits for every handler to return before the
\* next gesture: no two handlers are ever suspended together
Idle == ops = <<>>

SeqNext ==
    \/ SettleStep
    \/ \E pid \in PromptArgs : Idle /\ CreateNewChat(pid)
    \/ Idle /\ SidebarNewChat
    \/ \E pid \in CustomPrompts : Idle /\ CreateCustomPrompt(pid)
    \/ \E k \in 1..Len(chats), t \in RenameTitles : Idle /\ Rename(k, t)
    \/ \E k \in 1..Len(chats) : Idle /\ DeleteOne(k)
    \/ \E k \in 1..Len(chats) : Idle /\ ToggleChatSelection(k)
    \/ Idle /\ BulkDelete
    \/ Idle /\ ClearSelection
    \/ \E text \in Texts : Idle /\ HandleSend(text)

SeqSpec == Init /\ [][SeqNext]_vars

\* the runs of at most MaxRaceGestures gestures: two handlers that overlap
Few == gestures < MaxRaceGestures

RaceNext ==
    \/ SettleStep
    \/ \E pid \in PromptArgs : Few /\ CreateNewChat(pid)
    \/ Few /\ SidebarNewChat
    \/ \E pid \in CustomPrompts : Few /\ CreateCustomPrompt(pid)
    \/ \E k \in 1..Len(chats), t \in RenameTitles : Few /\ Rename(k, t)
    \/ \E k \in 1..Len(chats) : Few /\ DeleteOne(k)
    \/ \E k \in 1..Len(chats) : Few /\ ToggleChatSelection(k)
    \/ Few /\ BulkDelete
    \/ Few /\ ClearSelection
    \/ \E text \in Texts : Few /\ HandleSend(text)

RaceSpec == Init /\ [][RaceNext]_vars

\* ======================================================== Calendar.jsx
Slots == 0..MaxSlot
TaskIds == 1..MaxTasks

NoCal == [kind |-> "none", task |-> 0, old |-> 0, new |-> 0,
          outcome |-> "none", reverts |-> 0, notes |-> {}]

CalFrame == UNCHANGED <<chats, prompts, activeChat, selectedChats, isLoading,
                        rChats, rMessages, rPrompts, nextChat, nextMsg, ops,
                        landed, notes, failures, messages, inputValue,
                        attachment, isProcessing, stubs, isRecording,
                        recognitionRef, isListening, recognition, viewLast>>

CalInit ==
    /\ chats = <<>>
    /\ prompts = <<>>
    /\ activeChat = NullChat
    /\ selectedChats = {}
    /\ isLoading = TRUE
    /\ rPrompts = <<"p2", "p1">>
    /\ rChats = <<>>
    /\ rMessages = <<>>
    /\ nextChat = 1
    /\ nextMsg = 1
    /\ ops = <<>>
    /\ landed = NoLand
    /\ notes = {}
    /\ gestures = 0
    /\ failures = 0
    /\ events = <<>>
    /\ rDeadline \in [TaskIds -> Slots]
    \* useEffect(() => { loadTasks() }, [])
    /\ drops = <<[kind |-> "load", task |-> 0, old |-> 0, new |-> 0]>>
    /\ calLast = NoCal
    /\ ViewIdle("null")

\* loadTasks, lines 63-93: start: task.deadline for every row
FormattedTasks(rows) == [t \in 1..Len(rows) |-> rows[t]]

LoadTasksOk(i) ==
    /\ drops[i].kind = "load"
    /\ events' = FormattedTasks(rDeadline)
    /\ drops' = RemoveAt(drops, i)
    /\ calLast' = [NoCal EXCEPT !.kind = "load", !.outcome = "ok"]
    /\ UNCHANGED <<rDeadline, gestures>>
    /\ CalFrame

LoadTasksErr(i) ==
    /\ drops[i].kind = "load"
    /\ drops' = RemoveAt(drops, i)
    /\ calLast' = [NoCal EXCEPT !.kind = "load", !.outcome = "error",
                                !.notes = {Note("Failed to load tasks", "error")}]
    /\ UNCHANGED <<events, rDeadline, gestures>>
    /\ CalFrame

\* the user drags event t to slot s: the calendar shows it there and calls
\* handleEventDrop(info); info.revert undoes the move
DragEvent(t, s) ==
    /\ gestures < MaxGestures
    /\ gestures' = gestures + 1
    /\ Len(drops) < MaxInFlight
    /\ t \in 1..Len(events)
    /\ s # events[t]
    /\ events' = [events EXCEPT ![t] = s]
    /\ drops' = Append(drops, [kind |-> "drop", task |-> t, old |-> events[t],
                               new |-> s])
    /\ calLast' = NoCal
    /\ UNCHANGED rDeadline
    /\ CalFrame

\* info.revert(): the event goes back to where the drag took it from
Revert(ev, d) == [ev EXCEPT ![d.task] = d.old]

\* (a catch block that only notifies)
DropCatchNoRevert(d, outcome) ==
    [kind |-> "drop", task |-> d.task, old |-> d.old, new |-> d.new,
     outcome |-> outcome, reverts |-> 0,
     notes |-> {Note("Failed to update event", "error")}]

\* the catch block of handleEventDrop, lines 125-129
DropCatch(d, outcome) ==
    [kind |-> "drop", task |-> d.task, old |-> d.old, new |-> d.new,
     outcome |-> outcome, reverts |-> 1,
     notes |-> {Note("Failed to update event", "error")}]

\* line 124
DropSuccess(d) ==
    [kind |-> "drop", task |-> d.task, old |-> d.old, new |-> d.new,
     outcome |-> "ok", reverts |-> 0,
     notes |-> {Note("Event updated successfully", "success")}]

\* what the calendar shows after a handler run that called revert n times
AfterReverts(ev, d, last) == IF last.reverts > 0 THEN Revert(ev, d) ELSE ev

TaskUpdateOk(i) ==
    /\ drops[i].kind = "drop"
    /\ rDeadline' = [rDeadline EXCEPT ![drops[i].task] = drops[i].new]
    /\ calLast' = DropSuccess(drops[i])
    /\ events' = AfterReverts(events, drops[i], calLast')
    /\ drops' = RemoveAt(drops, i)
    /\ UNCHANGED gestures
    /\ CalFrame

\* the update returns { error }, or the awaited call rejects
TaskUpdateFails(i, outcome) ==
    /\ drops[i].kind = "drop"
    /\ calLast' = DropCatch(drops[i], outcome)
    /\ events' = AfterReverts(events, drops[i], calLast')
    /\ drops' = RemoveAt(drops, i)
    /\ UNCHANGED <<rDeadline, gestures>>
    /\ CalFrame

TaskUpdateErr(i) == TaskUpdateFails(i, "error")
TaskUpdateThrows(i) == TaskUpdateFails(i, "throw")

CalNext ==
    \/ \E i \in 1..Len(drops) : LoadTasksOk(i)
    \/ \E i \in 1..Len(drops) : LoadTasksErr(i)
    \/ \E t \in TaskIds, s \in Slots : DragEvent(t, s)
    \/ \E i \in 1..Len(drops) : TaskUpdateOk(i)
    \/ \E i \in 1..Len(drops) : TaskUpdateErr(i)
    \/ \E i \in 1..Len(drops) : TaskUpdateThrows(i)

CalSpec == CalInit /\ [][CalNext]_vars

\* ============================================== Chat page (part_000)
TaskResponse ==
    <<73, 39, 108, 108, 32, 104, 101, 108, 112, 32, 121, 111, 117, 32, 99,
      114, 101, 97, 116, 101, 32, 97, 32, 116, 97, 115, 107, 46, 32, 87,
      104, 97, 116, 32, 119, 111, 117, 108, 100, 32, 121, 111, 117, 32,
      108, 105, 107, 101, 32, 116, 111, 32, 110, 97, 109, 101, 32, 105,
      116, 63>>

ScheduleResponse ==
    <<73, 32, 99, 97, 110, 32, 104, 101, 108, 112, 32, 121, 111, 117, 32,
      115, 99, 104, 101, 100, 117, 108, 101, 32, 116, 104, 97, 116, 46, 32,
      87, 104, 101, 110, 32, 119, 111, 117, 108, 100, 32, 121, 111, 117,
      32, 108, 105, 107, 101, 32, 116, 111, 32, 115, 99, 104, 101, 100,
      117, 108, 101, 32, 105, 116, 32, 102, 111, 114, 63>>

GenericResponse ==
    <<73, 32, 117, 110, 100, 101, 114, 115, 116, 97, 110, 100, 46, 32, 72,
      111, 119, 32, 101, 108, 115, 101, 32, 99, 97, 110, 32, 73, 32, 97,
      115, 115, 105, 115, 116, 32, 121, 111, 117, 32, 119, 105, 116, 104,
      32, 116, 104, 97, 116, 63>>

SentAnAttachment ==
    <<83, 101, 110, 116, 32, 97, 110, 32, 97, 116, 116, 97, 99, 104, 109,
      101, 110, 116>>

\* the keywords of simulateAIResponse
CreateTask == <<99, 114, 101, 97, 116, 101, 32, 116, 97, 115, 107>>
NewTask == <<110, 101, 119, 32, 116, 97, 115, 107>>
Schedule == <<115, 99, 104, 101, 100, 117, 108, 101>>
Meeting == <<109, 101, 101, 116, 105, 110, 103>>

\* handleQuickAction: the text each quick action puts into the input
QuickActions == {"task", "calendar", "message"}
QuickText(action) ==
    IF action = "task"
    THEN <<67, 114, 101, 97, 116, 101, 32, 97, 32, 110, 101, 119, 32, 116,
           97, 115, 107, 58, 32>>
    ELSE IF action = "calendar"
    THEN <<83, 99, 104, 101, 100, 117, 108, 101, 32, 97, 32, 109, 101, 101,
           116, 105, 110, 103, 32, 102, 111, 114, 32>>
    ELSE <<83, 101, 110, 100, 32, 109, 101, 115, 115, 97, 103, 101, 32, 116,
           111, 32>>

\* the inputs of the keyword stub: every concatenation of three fragments
\* ("", "create", " ", "task", "NEW ", "Schedule", "MEETING", "x")
Fragments ==
    { <<>>,
      <<99, 114, 101, 97, 116, 101>>,
      <<32>>,
      <<116, 97, 115, 107>>,
      <<78, 69, 87, 32>>,
      <<83, 99, 104, 101, 100, 117, 108, 101>>,
      <<77, 69, 69, 84, 73, 78, 71>>,
      <<120>> }
StubInputs == {a \o b \o c : a \in Fragments, b \in Fragments, c \in Fragments}

\* what the user types into the Chat page, and what the recogniser hears
PageTexts == {ShortText, BlankText}
Transcripts == {ShortText}

\* String.prototype.toLowerCase, on the letters A-Z
LowerCode(c) == IF c >= 65 /\ c <= 90 THEN c + 32 ELSE c
ToLowerCase(s) == [i \in 1..Len(s) |-> LowerCode(s[i])]

\* String.prototype.includes
Includes(s, kw) ==
    \E i \in 0..(Len(s) - Len(kw)) : SubSeq(s, i + 1, i + Len(kw)) = kw

\* (the scheduling keywords looked at before the task keywords)
SimulateAIResponseScheduleFirst(message) ==
    IF Includes(ToLowerCase(message), Schedule)
          \/ Includes(ToLowerCase(message), Meeting)
    THEN ScheduleResponse
    ELSE IF Includes(ToLowerCase(message), CreateTask)
               \/ Includes(ToLowerCase(message), NewTask)
    THEN TaskResponse
    ELSE GenericResponse

\* simulateAIResponse, lines 47-55 (after the delay of line 45)
SimulateAIResponse(message) ==
    IF Includes(ToLowerCase(message), CreateTask)
          \/ Includes(ToLowerCase(message), NewTask)
    THEN TaskResponse
    ELSE IF Includes(ToLowerCase(message), Schedule)
               \/ Includes(ToLowerCase(message), Meeting)
    THEN ScheduleResponse
    ELSE GenericResponse

\* the session the chat context holds once loaded, with m stored messages
ChatLoaded(m) ==
    /\ rPrompts = <<"p2", "p1">>
    /\ prompts = rPrompts
    /\ rChats = <<[id |-> 1, title |-> NewChatTitle, prompt |-> "null"]>>
    /\ rMessages = [i \in 1..m |->
                       [id |-> i, session |-> 1, role |-> "user",
                        content |-> ShortText]]
    /\ chats = <<JoinedChat(rChats[1])>>
    /\ activeChat = chats[1]
    /\ selectedChats = {}
    /\ isLoading = FALSE
    /\ nextChat = 2
    /\ nextMsg = m + 1
    /\ ops = <<>>
    /\ landed = NoLand
    /\ notes = {}
    /\ gestures = 0
    /\ failures = 0

CalIdle ==
    /\ events = <<>>
    /\ rDeadline = <<>>
    /\ drops = <<>>
    /\ calLast = "none"

\* a step of the Chat page leaves the chat context and the calendar alone
PageFrame ==
    /\ UNCHANGED <<chats, prompts, activeChat, selectedChats, isLoading,
                   rChats, rMessages, rPrompts, nextChat, nextMsg, ops,
                   landed, notes, gestures, failures>>
    /\ UNCHANGED <<events, rDeadline, drops, calLast>>
    /\ UNCHANGED <<isListening, recognition>>

View(view, kind, text, ns) ==
    [view |-> view, kind |-> kind, text |-> text, notes |-> ns]

\* onChange of the input: setInputValue(e.target.value)
TypeInput(text) ==
    /\ inputValue' = text
    /\ viewLast' = View("page", "input", text, {})
    /\ UNCHANGED <<messages, attachment, isProcessing, stubs, isRecording,
                   recognitionRef>>
    /\ PageFrame

\* handleFileSelect with a file chosen
HandleFileSelect ==
    /\ attachment' = TRUE
    /\ viewLast' = View("page", "file", <<>>, {})
    /\ UNCHANGED <<messages, inputValue, isProcessing, stubs, isRecording,
                   recognitionRef>>
    /\ PageFrame

\* the X button of the attachment row: setAttachment(null)
RemoveAttachment ==
    /\ attachment
    /\ attachment' = FALSE
    /\ viewLast' = View("page", "unfile", <<>>, {})
    /\ UNCHANGED <<messages, inputValue, isProcessing, stubs, isRecording,
                   recognitionRef>>
    /\ PageFrame

HandleQuickAction(action) ==
    /\ inputValue' = QuickText(action)
    /\ viewLast' = View("page", "quick", QuickText(action), {})
    /\ UNCHANGED <<messages, attachment, isProcessing, stubs, isRecording,
                   recognitionRef>>
    /\ PageFrame

\* (a guard that does not look at isProcessing)
SendAcceptedUnserialised == ~(IsBlank(inputValue) /\ ~attachment)

\* line 140: if ((!inputValue.trim() && !attachment) || isProcessing) return
SendAccepted == ~((IsBlank(inputValue) /\ ~attachment) \/ isProcessing)

\* the entry handleSend appends, lines 144-148
UserEntry(userMessage, file) ==
    [text |-> IF userMessage # <<>> THEN userMessage ELSE SentAnAttachment,
     isAI |-> FALSE, attachment |-> file]

AIEntry(response) == [text |-> response, isAI |-> TRUE, attachment |-> FALSE]

\* Chat.handleSend, lines 137-153, up to the await
ChatHandleSend ==
    /\ Len(messages) < 2 * MaxSends
    /\ IF SendAccepted
       THEN /\ inputValue' = <<>>
            /\ messages' = Append(messages, UserEntry(inputValue, attachment))
            /\ attachment' = FALSE
            /\ isProcessing' = TRUE
            /\ stubs' = Append(stubs, inputValue)
            /\ viewLast' = View("page", "send", inputValue, {})
       ELSE /\ viewLast' = View("page", "ignored", inputValue, {})
            /\ UNCHANGED <<inputValue, messages, attachment, isProcessing,
                           stubs>>
    /\ UNCHANGED <<isRecording, recognitionRef>>
    /\ PageFrame

\* simulateAIResponse resolves: lines 154 and 158
StubResolves(i) ==
    /\ i \in 1..Len(stubs)
    /\ messages' = Append(messages, AIEntry(SimulateAIResponse(stubs[i])))
    /\ isProcessing' = FALSE
    /\ stubs' = RemoveAt(stubs, i)
    /\ viewLast' = View("page", "stub", stubs[i], {})
    /\ UNCHANGED <<inputValue, attachment, isRecording, recognitionRef>>
    /\ PageFrame

\* ------------------------------------------------- speech recognition
\* a recognition object is "null" (no capability), "idle", "started", or
\* "ending" (a result or an error was delivered, the end event is to come)
\* recognition.start(): throws when a session has not ended
StartThrows(rec) == rec \in {"started", "ending"}

\* toggleRecording, lines 111-128
ToggleRecording ==
    /\ IF recognitionRef = "null"
       THEN /\ viewLast' = View("page", "unsupported", <<>>,
                   {Note("Speech recognition is not supported in your browser",
                         "error")})
            /\ UNCHANGED <<isRecording, recognitionRef>>
       ELSE IF isRecording
       THEN /\ viewLast' = View("page", "stop", <<>>, {})
            /\ UNCHANGED <<isRecording, recognitionRef>>
       ELSE IF StartThrows(recognitionRef)
       THEN /\ viewLast' = View("page", "start_failed", <<>>,
                                {Note("Failed to start recording", "error")})
            /\ UNCHANGED <<isRecording, recognitionRef>>
       ELSE /\ recognitionRef' = "started"
            /\ isRecording' = TRUE
            /\ viewLast' = View("page", "start", <<>>, {})
    /\ UNCHANGED <<messages, inputValue, attachment, isProcessing, stubs>>
    /\ PageFrame

\* recognitionRef.current.onresult, lines 87-91
PageResult(transcript) ==
    /\ recognitionRef = "started"
    /\ Len(inputValue) + 1 + Len(transcript) <= MaxInputLen
    /\ inputValue' = inputValue \o <<32>> \o transcript
    /\ isRecording' = FALSE
    /\ recognitionRef' = "ending"
    /\ viewLast' = View("page", "result", transcript, {})
    /\ UNCHANGED <<messages, attachment, isProcessing, stubs>>
    /\ PageFrame

\* recognitionRef.current.onerror, lines 93-97
PageError ==
    /\ recognitionRef = "started"
    /\ isRecording' = FALSE
    /\ recognitionRef' = "ending"
    /\ viewLast' = View("page", "error_event", <<>>,
                        {Note("Failed to recognize speech", "error")})
    /\ UNCHANGED <<messages, inputValue, attachment, isProcessing, stubs>>
    /\ PageFrame

\* recognitionRef.current.onend, lines 99-101
PageEnd ==
    /\ recognitionRef \in {"started", "ending"}
    /\ isRecording' = FALSE
    /\ recognitionRef' = "idle"
    /\ viewLast' = View("page", "end", <<>>, {})
    /\ UNCHANGED <<messages, inputValue, attachment, isProcessing, stubs>>
    /\ PageFrame

\* ----------------------------------------- ChatInterface speech (part_001)
\* a step of ChatInterface's speech input that starts no handleSend
InterfaceFrame ==
    /\ UNCHANGED <<chats, prompts, activeChat, selectedChats, isLoading,
                   rChats, rMessages, rPrompts, nextChat, nextMsg, ops,
                   landed, notes, gestures, failures>>
    /\ UNCHANGED <<events, rDeadline, drops, calLast>>
    /\ UNCHANGED <<messages, inputValue, attachment, isProcessing, stubs,
                   isRecording, recognitionRef>>

\* toggleListening, lines 366-374, with startListening and stopListening;
\* the button is rendered only while activeChat is not null (line 394)
ToggleListening ==
    /\ activeChat.kind # "null"
    /\ IF isListening
       THEN /\ isListening' = FALSE
            /\ viewLast' = View("interface", "stop", <<>>, {})
            /\ UNCHANGED recognition
       ELSE IF recognition = "null"
       THEN /\ isListening' = TRUE
            /\ viewLast' = View("interface", "start", <<>>, {})
            /\ UNCHANGED recognition
       ELSE IF StartThrows(recognition)
       \* the exception leaves toggleListening before setIsListening(true)
       THEN /\ viewLast' = View("interface", "start_failed", <<>>, {})
            /\ UNCHANGED <<isListening, recognition>>
       ELSE /\ recognition' = "started"
            /\ isListening' = TRUE
            /\ viewLast' = View("interface", "start", <<>>, {})
    /\ InterfaceFrame

\* recognition.onresult, lines 289-292, and the callback of lines 335-340:
\* setInput(transcript); handleSend(transcript)
InterfaceResult(transcript) ==
    /\ recognition = "started"
    /\ activeChat.kind # "null"
    /\ Len(ops) < MaxInFlight
    /\ recognition' = "ending"
    /\ viewLast' = View("interface", "result", transcript, {})
    /\ LET op == [Closure("send", "start")
                    EXCEPT !.text = transcript, !.cid = activeChat.id,
                           !.title = AutoTitle(transcript)]
       IN ops' = Append(Others(FALSE),
                        IF activeChat.kind = "chat" /\ Len(activeChat.messages) = 0
                        THEN SendNext(op, "session_update")
                        ELSE SendNext(op, "user_insert"))
    /\ landed' = NoLand
    /\ notes' = {}
    /\ UNCHANGED <<chats, prompts, activeChat, selectedChats, isLoading,
                   rChats, rMessages, rPrompts, nextChat, nextMsg, gestures,
                   failures>>
    /\ UNCHANGED <<events, rDeadline, drops, calLast>>
    /\ UNCHANGED <<messages, inputValue, attachment, isProcessing, stubs,
                   isRecording, recognitionRef, isListening>>

\* recognition.onerror, lines 294-296: console.error only
InterfaceError ==
    /\ recognition = "started"
    /\ recognition' = "ending"
    /\ viewLast' = View("interface", "error_event", <<>>, {})
    /\ UNCHANGED isListening
    /\ InterfaceFrame

\* recognition.onend, lines 298-300: setIsListening is not in the scope of
\* useSpeechRecognition, so the handler throws a ReferenceError
InterfaceEnd ==
    /\ recognition \in {"started", "ending"}
    /\ recognition' = "idle"
    /\ viewLast' = View("interface", "end", <<>>, {})
    /\ UNCHANGED isListening
    /\ InterfaceFrame

\* ------------------------------------------------- the view specifications
\* the keyword stub on every input of StubInputs
StubInit ==
    /\ ChatLoaded(0)
    /\ CalIdle
    /\ messages = <<>>
    /\ inputValue \in StubInputs
    /\ attachment \in BOOLEAN
    /\ isProcessing = FALSE
    /\ stubs = <<>>
    /\ isRecording = FALSE
    /\ recognitionRef = "null"
    /\ isListening = FALSE
    /\ recognition = "null"
    /\ viewLast = NoView

StubNext ==
    \/ \E action \in QuickActions : HandleQuickAction(action)
    \/ ChatHandleSend
    \/ \E i \in 1..Len(stubs) : StubResolves(i)

StubSpec == StubInit /\ [][StubNext]_vars

\* the Chat page
PageInit ==
    /\ ChatLoaded(0)
    /\ CalIdle
    /\ \E rec \in {"null", "idle"} : ViewIdle(rec)

PageNext ==
    \/ \E text \in PageTexts : TypeInput(text)
    \/ HandleFileSelect
    \/ RemoveAttachment
    \/ ChatHandleSend
    \/ \E i \in 1..Len(stubs) : StubResolves(i)
    \/ ToggleRecording
    \/ \E transcript \in Transcripts : PageResult(transcript)
    \/ PageError
    \/ PageEnd

PageSpec == PageInit /\ [][PageNext]_vars

\* the timer of simulateAIResponse fires
PageLiveSpec ==
    PageSpec /\ \A i \in 1..MaxSends : WF_vars(StubResolves(i))

\* speech input in both chat views, with the turns a transcript starts
SpeechInit ==
    /\ \E m \in 0..1 : ChatLoaded(m)
    /\ CalIdle
    /\ \E rec \in {"null", "idle"} : ViewIdle(rec)

SpeechNext ==
    \/ ToggleRecording
    \/ \E transcript \in Transcripts : PageResult(transcript)
    \/ PageError
    \/ PageEnd
    \/ ToggleListening
    \/ \E transcript \in Transcripts : InterfaceResult(transcript)
    \/ InterfaceError
    \/ InterfaceEnd
    \/ \E i \in 1..Len(ops) : SessionUpdateOk(i)
    \/ \E i \in 1..Len(ops) : SessionUpdateErr(i)
    \/ \E i \in 1..Len(ops) : MessageInsertOk(i)
    \/ \E i \in 1..Len(ops) : MessageInsertErr(i)
    \/ \E i \in 1..Len(ops) : TypingDelay(i)

SpeechSpec == SpeechInit /\ [][SpeechNext]_vars

\* ================================================================ claims
ErrorRaised == \E n \in notes : n.type = "error"
ChatOps == {"create", "send", "title", "delete"}

\* the createNewChat that deleteChats started has returned a session
ReplacementStored ==
    /\ landed.fin /\ landed.ok
    /\ landed.op.kind = "create" /\ landed.op.nested
    /\ landed.result.kind = "chat"

\* C1: when deleteChats succeeded with ids covering every session of the
\* local list and the createNewChat it started has returned its session (no
\* other handler or gesture in between), chats holds exactly one session,
\* whose id is none of the deleted ids and which has no messages.
C1_DeleteLastYieldsOneEmptySession ==
    (ReplacementStored /\ landed.op.solo /\ landed.op.capChats # <<>>)
        => /\ Len(chats) = 1
           /\ chats[1].id \notin landed.op.ids
           /\ chats[1].messages = <<>>

\* a createNewChat(pid) whose prompt has non-empty instructions returned a
\* session
CreatedFromInstructions ==
    /\ landed.fin /\ landed.op.kind = "create"
    /\ landed.result.kind = "chat"
    /\ HasInstructions(landed.op.pid)

\* C2: the session a createNewChat(promptId) with non-empty instructions
\* returns, stores at the head of chats and makes the active chat has a
\* non-empty messages list whose first element has role "system" and the
\* instructions as content.
C2_CreatedSessionStartsWithSystemMessage ==
    CreatedFromInstructions
        => /\ chats[1] = landed.result
           /\ activeChat = landed.result
           /\ landed.result.messages # <<>>
           /\ landed.result.messages[1].role = "system"
           /\ landed.result.messages[1].content = Instructions(landed.op.pid)

RemoteTitle(id) == (CHOOSE r \in Range(rChats) : r.id = id).title

\* C3: once no remote call is in flight (and none has failed), the ids of
\* the local chats are the ids of the rows of chat_sessions and every local
\* title is the row's title.
C3_LocalMirrorsRemote ==
    (ops = <<>> /\ failures = 0)
        => /\ ChatIds(chats) = RemoteIds
           /\ \A k \in 1..Len(chats) :
                 chats[k].id \in RemoteIds
                    => chats[k].title = RemoteTitle(chats[k].id)

\* the step is a local patch made by one of the four chat operations
ChatOpPatched ==
    /\ landed'.call # "none"
    /\ landed'.op.kind \in ChatOps
    /\ <<chats, activeChat>>' # <<chats, activeChat>>

\* C4: every local state change made by addMessage, updateChatTitle,
\* createNewChat or deleteChats leaves the previous messages of every session
\* that stays in chats a prefix of its new messages, in chats and in
\* activeChat, and a successful addMessage adds exactly the inserted message.
C4_MessagesOnlyAppended ==
    [][ChatOpPatched =>
          /\ \A a \in 1..Len(chats), b \in 1..Len(chats') :
                chats[a].id = chats'[b].id
                   => IsPrefix(chats[a].messages, chats'[b].messages)
          /\ (activeChat.kind = "chat" /\ activeChat'.kind = "chat"
                 /\ activeChat.id = activeChat'.id
                 /\ activeChat.id \in ChatIds(chats'))
                => IsPrefix(activeChat.messages, activeChat'.messages)
          /\ (landed'.call = "message_insert" /\ landed'.ok
                 /\ activeChat.kind = "chat"
                 /\ activeChat.id = activeChat'.id)
                => activeChat'.messages
                      = Append(activeChat.messages, rMessages'[Len(rMessages')])
      ]_vars

\* C5: a handleEventDrop whose update returned an error or threw called
\* info.revert() exactly once, so the event is shown at its pre-drag start,
\* and raised an error notification and no success notification; one whose
\* update succeeded never called revert.
C5_FailedRescheduleReverts ==
    calLast.kind = "drop"
        => /\ calLast.outcome \in {"error", "throw"}
                => /\ calLast.reverts = 1
                   /\ events[calLast.task] = calLast.old
                   /\ \E n \in calLast.notes : n.type = "error"
                   /\ \A n \in calLast.notes : n.type # "success"
           /\ calLast.outcome = "ok"
                => /\ calLast.reverts = 0
                   /\ \E n \in calLast.notes : n.type = "success"

C5_Witness ==
    /\ calLast.kind = "drop"
    /\ calLast.outcome = "throw"
    /\ calLast.old # calLast.new
    /\ events[calLast.task] = calLast.old
    /\ rDeadline[calLast.task] # calLast.new

\* C6: once the active chat is set it is never null again, also between
\* the landing of a deleteChats response and the storing of the replacement
\* session, and when the replacement's creation fails.
C6_ActiveChatNeverNullAgain ==
    [][activeChat.kind # "null" => activeChat'.kind # "null"]_vars

\* C7: when a remote call made by createNewChat, createCustomPrompt,
\* updateChatTitle, deleteChats or loadChatsAndPrompts returned an error,
\* chats, activeChat, prompts and selectedChats are, when the operation
\* returns, what they were when it was called (no other handler or gesture
\* in between).
C7_FailureLeavesLocalStateUnchanged ==
    (/\ landed.fin
     /\ landed.op.kind \in {"create", "prompt", "title", "delete", "load"}
     /\ landed.op.errs # {}
     /\ landed.op.solo)
        => /\ chats = landed.op.capChats
           /\ activeChat = landed.op.capActive
           /\ prompts = landed.op.capPrompts
           /\ selectedChats = landed.op.capSelected

\* C8: whenever a remote call of the chat context returns an error, the
\* operation that made the call raises an error notification.
C8_EveryFailureIsReported ==
    (landed.call \notin {"none", "validate"} /\ ~landed.ok) => ErrorRaised

\* the last step stored the result of one of the four chat operations
LandedPatch ==
    /\ landed.call # "none"
    /\ landed.op.kind \in ChatOps
    /\ IF landed.op.kind = "create" THEN landed.result.kind = "chat"
       ELSE landed.ok

\* ... of one that was suspended while another one stored its result
RacedPatch == LandedPatch /\ landed.op.raced

\* what that operation computes from the chats its closure captured
ExpectedChats ==
    LET op == landed.op
    IN CASE op.kind = "create" -> <<landed.result>> \o op.capChats
         [] landed.call = "session_update" ->
               TitlePatch(op.capChats, op.cid, op.title)
         [] landed.call = "message_insert" ->
               ReplaceChat(op.capChats, op.capActive.id,
                           [op.capActive EXCEPT !.messages =
                               Append(@, rMessages[Len(rMessages)])])
         [] OTHER -> DeletePatch(op.capChats, op.ids)

\* whether that operation calls setActiveChat, and with what
SetsActive ==
    LET op == landed.op
    IN CASE op.kind = "create" -> TRUE
         [] landed.call = "message_insert" -> TRUE
         [] landed.call = "session_update" ->
               op.capActive.kind = "chat" /\ op.capActive.id = op.cid
         [] OTHER -> op.capActive.kind = "chat" /\ op.capActive.id \in op.ids

ExpectedActive ==
    LET op == landed.op
        left == DeletePatch(op.capChats, op.ids)
    IN CASE op.kind = "create" -> landed.result
         [] landed.call = "message_insert" ->
               [op.capActive EXCEPT !.messages =
                   Append(@, rMessages[Len(rMessages)])]
         [] landed.call = "session_update" ->
               [op.capActive EXCEPT !.title = op.title]
         [] OTHER -> IF left # <<>> THEN left[1] ELSE NullChat

\* C9 (as claimed): when two chat operations raced and both succeeded, then
\* after both have settled chats and activeChat are exactly what the
\* operation whose response landed last computed from the state it captured
\* when it started.
C9_LastResponseWinsAll ==
    (RacedPatch /\ ops = <<>>)
        => /\ chats = ExpectedChats
           /\ activeChat = IF SetsActive THEN ExpectedActive
                           ELSE landed.op.capActive

\* C9 (amended): when a chat operation stores its result after another one
\* stored its own while it was suspended, chats becomes exactly what the
\* later operation computes from the chats it captured; activeChat becomes
\* what it computes if it calls setActiveChat, and is otherwise left as the
\* earlier operation set it.
C9_LastResponseWins ==
    [][RacedPatch' =>
          /\ chats' = ExpectedChats'
          /\ activeChat' = IF SetsActive' THEN ExpectedActive' ELSE activeChat
      ]_vars

\* a rename of another chat landed last: the list is the rename's, the
\* active chat is still the one the earlier operation set, and the list
\* does not hold it
C9_Witness ==
    /\ RacedPatch
    /\ ops = <<>>
    /\ landed.call = "session_update"
    /\ ~SetsActive
    /\ chats = ExpectedChats
    /\ activeChat.kind = "chat"
    /\ activeChat # landed.op.capActive
    /\ activeChat.id \notin ChatIds(chats)

\* C10: after a createNewChat(promptId) with a prompt that has instructions
\* returned a session (no other handler or gesture in between),
\* chat_messages holds a row of that session whose content is the prompt's
\* instructions.
C10_PromptSessionHasInstructionRow ==
    (CreatedFromInstructions /\ landed.op.solo)
        => \E m \in Range(rMessages) :
              /\ m.session = landed.result.id
              /\ m.content = Instructions(landed.op.pid)

\* C11: no handler acts on the result of a remote operation before it has
\* settled: the active chat is never the pending promise of a createNewChat
\* call, and when deleteChats raises its "Deleted" notification the
\* createNewChat it started is no longer in flight.
C11_RemoteOperationsAwaited ==
    /\ activeChat.kind # "promise"
    /\ (landed.call = "session_delete" /\ Note("Deleted", "success") \in notes)
          => \A j \in 1..Len(ops) : ~(ops[j].kind = "create" /\ ops[j].nested)

\* letter c of a message is keyword letter k up to case
SameLetter(c, k) == c = k \/ (c \in 65..90 /\ c + 32 = k)

\* kw occurs in m at some position, case ignored
ContainsIgnoringCase(m, kw) ==
    \E i \in 1..Len(m) :
        /\ i + Len(kw) - 1 <= Len(m)
        /\ \A j \in 1..Len(kw) : SameLetter(m[i + j - 1], kw[j])

HasTaskKeyword(m) ==
    ContainsIgnoringCase(m, CreateTask) \/ ContainsIgnoringCase(m, NewTask)

HasScheduleKeyword(m) ==
    ContainsIgnoringCase(m, Schedule) \/ ContainsIgnoringCase(m, Meeting)

\* C12: the entry the stub adds for message m is the task response if m
\* contains 'create task' or 'new task' up to case, otherwise the scheduling
\* response if m contains 'schedule' or 'meeting' up to case, otherwise the
\* generic response, whatever else the page holds.
C12_StubAnswersByKeyword ==
    viewLast.kind = "stub"
        => LET m == viewLast.text
               entry == messages[Len(messages)]
           IN /\ entry.isAI
              /\ entry.text = IF HasTaskKeyword(m) THEN TaskResponse
                              ELSE IF HasScheduleKeyword(m) THEN ScheduleResponse
                              ELSE GenericResponse

\* a message with capital letters that holds a keyword of both groups got
\* the task response
C12_Witness ==
    /\ viewLast.kind = "stub"
    /\ HasTaskKeyword(viewLast.text)
    /\ HasScheduleKeyword(viewLast.text)
    /\ \E i \in 1..Len(viewLast.text) : viewLast.text[i] \in 65..90
    /\ messages[Len(messages)].text = TaskResponse

\* C13: in both chat views, after a speech-recognition error event and after
\* a failed start of recognition an error notification has been raised and
\* the view is not recording (Chat page) or listening (ChatInterface).
C13_SpeechFailuresNotified ==
    viewLast.kind \in {"error_event", "start_failed"}
        => /\ \E n \in viewLast.notes : n.type = "error"
           /\ viewLast.view = "page" => ~isRecording
           /\ viewLast.view = "interface" => ~isListening

\* C14: when the browser has no speech recognition (neither view has a
\* recognition object), no microphone press puts a view into the recording
\* or listening state.
C14_NoSpeechNoListening ==
    (recognitionRef = "null" /\ recognition = "null")
        => /\ ~isRecording
           /\ ~isListening

\* C15 definitions: a createNewChat has returned a session
CreateLanded ==
    /\ landed.fin /\ landed.op.kind = "create"
    /\ landed.result.kind = "chat"

IdSeq(cs) == [j \in 1..Len(cs) |-> cs[j].id]

\* the sessions of old are all in new, in the same relative order
KeptInOrder(old, new) ==
    SelectSeq(IdSeq(new), LAMBDA x : x \in ChatIds(old)) = IdSeq(old)

\* C15 (as claimed): after every successful createNewChat the returned
\* session is the first element of chats and the active chat, and every
\* session that was in chats when the response landed is still in chats, in
\* the same relative order.
C15_CreatedSessionKeepsCurrentChats ==
    [][CreateLanded' =>
          /\ chats'[1] = landed'.result
          /\ activeChat' = landed'.result
          /\ KeptInOrder(chats, chats')
      ]_vars

\* C15 (amended): after every successful createNewChat the returned session
\* is the first element of chats and the active chat, and it is followed by
\* exactly the sessions that were in chats when createNewChat was called, in
\* their order.
C15_CreatedSessionHeadsCapturedChats ==
    [][CreateLanded' =>
          /\ chats'[1] = landed'.result
          /\ activeChat' = landed'.result
          /\ Tail(chats') = landed'.op.capChats
      ]_vars

\* two createNewChat calls overlapped: the second one to land stored a list
\* without the session the first one had stored
C15_Witness ==
    /\ CreateLanded
    /\ landed.op.raced
    /\ ~landed.op.nested
    /\ chats = <<landed.result>> \o landed.op.capChats
    /\ activeChat = landed.result
    /\ \E id \in RemoteIds : id \notin ChatIds(chats)

\* ChatInterface.handleSend has returned, every remote call it made having
\* succeeded and no other handler or gesture having run in between
SendTurnDone ==
    /\ landed.fin /\ landed.op.kind = "send"
    /\ landed.op.errs = {}
    /\ landed.op.solo
    /\ landed.op.capActive.kind = "chat"

\* the first TitleLimit characters of text, followed by '...' if text is
\* longer
FirstChars(text) ==
    IF Len(text) > TitleLimit THEN SubSeq(text, 1, TitleLimit) \o Ellipsis
    ELSE text

LocalTitles(id) == {chats[k].title : k \in {j \in 1..Len(chats) : chats[j].id = id}}

\* C16: after a handleSend(text) turn on an active session that had no
\* messages, the session's title in chats and in activeChat is the first 50
\* characters of text (plus '...' if text is longer); after a turn on a
\* session that had messages its title is what it was.
C16_TitleAutoSavedOnFirstMessage ==
    SendTurnDone
        => LET op == landed.op
               title == IF op.capActive.messages = <<>> THEN FirstChars(op.text)
                        ELSE op.capActive.title
           IN /\ activeChat.id = op.capActive.id
              /\ activeChat.title = title
              /\ LocalTitles(op.capActive.id) = {title}

LocalMessages(id) ==
    {chats[k].messages : k \in {j \in 1..Len(chats) : chats[j].id = id}}

\* the role and content of every message of a list
Transcript(msgs) ==
    [j \in 1..Len(msgs) |-> <<msgs[j].role, msgs[j].content>>]

\* C17: when a handleSend(text) turn on an active session whose messages
\* were L has finished with both inserts successful, the session's messages,
\* in activeChat and in chats, are L, then the user message text, then the
\* assistant message 'Response to: ' + text.
C17_TurnLeavesBothMessages ==
    SendTurnDone
        => LET op == landed.op
               turn == Transcript(op.capActive.messages)
                          \o << <<"user", op.text>>,
                                <<"assistant", ResponsePrefix \o op.text>> >>
           IN /\ Transcript(activeChat.messages) = turn
              /\ \A msgs \in LocalMessages(op.capActive.id) :
                    Transcript(msgs) = turn
              /\ LocalMessages(op.capActive.id) # {}

\* C18: when the response of loadChatsAndPrompts lands while the active chat
\* is a session (set by another operation while the load was in flight), the
\* load leaves the active chat as it is.
C18_LoadKeepsActiveChat ==
    [][(/\ landed'.call = "sessions_select" /\ landed'.ok
        /\ activeChat.kind = "chat")
          => activeChat' = activeChat
      ]_vars

\* C19: the active chat is null or a session whose id is the id of a session
\* of chats.
C19_ActiveChatIsListed ==
    \/ activeChat.kind = "null"
    \/ /\ activeChat.kind = "chat"
       /\ activeChat.id \in ChatIds(chats)

\* the Chat page's messages alternate user, AI from a user entry, and end in
\* a user entry only while isProcessing
PageAlternates ==
    /\ \A k \in 1..Len(messages) : messages[k].isAI = (k % 2 = 0)
    /\ (Len(messages) % 2 = 1) => isProcessing

\* what a step of the Chat page does to the messages
PageSendStep ==
    /\ viewLast'.kind \in {"send", "ignored"}
          => IF (IsBlank(inputValue) /\ ~attachment) \/ isProcessing
             THEN UNCHANGED <<messages, inputValue, attachment, isProcessing,
                              stubs>>
             ELSE /\ Len(messages') = Len(messages) + 1
                  /\ SubSeq(messages', 1, Len(messages)) = messages
                  /\ ~messages'[Len(messages')].isAI
                  /\ isProcessing'
    /\ viewLast'.kind = "stub"
          => /\ Len(messages') = Len(messages) + 1
             /\ SubSeq(messages', 1, Len(messages)) = messages
             /\ messages'[Len(messages')].isAI
    /\ viewLast'.kind \notin {"send", "ignored", "stub"}
          => messages' = messages

\* C20: Chat.handleSend does nothing when the input is blank with no
\* attachment or when isProcessing is true; an accepted send appends one user
\* entry and the resolving stub one AI entry, so the messages alternate user,
\* AI (ending in a user entry only while isProcessing); and isProcessing
\* returns to false after every accepted send.
C20_SendsSerialised ==
    /\ []PageAlternates
    /\ [][PageSendStep]_vars
    /\ (isProcessing ~> ~isProcessing)

\* two turns completed
C20_Witness ==
    /\ Len(messages) = 2 * MaxSends
    /\ viewLast.kind = "stub"
    /\ ~isProcessing
    /\ PageAlternates

\* C21: a createNewChat whose promptId is neither null nor a string makes no
\* remote call (none is started, the tables are as before), raises 'Failed
\* to create new chat', returns null and leaves chats and activeChat as they
\* were; a createNewChat with a null promptId, also the one deleteChats
\* starts, never selects a prompt and inserts a session with prompt_id null.
C21_PromptIdValidatedFirst ==
    [][/\ landed'.call = "validate"
            => /\ landed'.op.pid = "bad"
               /\ landed'.fin /\ landed'.result = NullChat
               /\ notes' = {Note("Failed to create new chat", "error")}
               /\ Len(ops') = Len(ops)
               /\ UNCHANGED <<chats, activeChat, rChats, rMessages, rPrompts>>
       /\ \A j \in 1..Len(ops') :
             /\ ops'[j].pid # "bad"
             /\ (ops'[j].kind = "create" /\ ops'[j].pid = "null")
                   => ops'[j].pc = "session_insert"
       /\ (landed'.op.kind = "create" /\ landed'.op.pid = "null")
             => landed'.call \in {"validate", "session_insert"}
       /\ (landed'.call = "session_insert" /\ landed'.ok
              /\ landed'.op.pid = "null")
             => /\ Len(rChats') = Len(rChats) + 1
                /\ rChats'[1].id = landed'.op.row
                /\ rChats'[1].prompt = "null"
      ]_vars

\* createNewChat was called with a promptId that is not a string while
\* sessions were loaded and another handler was waiting for the store
C21_Witness ==
    /\ landed.call = "validate"
    /\ landed.op.pid = "bad"
    /\ chats # <<>>
    /\ activeChat.kind = "chat"
    /\ ops # <<>>
    /\ \E n \in notes : n.type = "error"

====
